---- MODULE Spec2Model ----
(***************************************************************************)
(* Model of the region scanning engine of lost-and-found:                  *)
(*   src/src/lib/services/scanner.ts          (the engine, runScan)        *)
(*   src/src/routes/api/scanner/+server.ts    (the control surface)        *)
(*   src/unnamed/part_010 (naip.ts), src/unnamed/part_011 (analyzer.ts)    *)
(*   src/supabase/schema.sql                  (scan_jobs, has_nearby_site) *)
(*                                                                         *)
(* One job row of scan_jobs is modelled.  Every await of the TypeScript    *)
(* code that touches the store is a separate step, so requests of the      *)
(* control surface interleave with the run loops as they do on the event   *)
(* loop of the server.                                                     *)
(***************************************************************************)
EXTENDS Integers, Sequences, FiniteSets, TLC

VARIABLES
    job,        \* the scan_jobs row
    runs,       \* the runScan invocations, in the order they were made
    reqs,       \* the accepted pause and cancel requests whose write is pending
    tileCache,  \* tile keys of tile_cache rows with analyzed = true
    sites,      \* rows inserted into sites by storePotentialSite
    attempted,  \* history: the tile indices whose pipeline was started
    lastStarted,\* history: the tile index whose pipeline was started last
    nreq,       \* the number of control requests made so far
    cancelSeen, \* history: the status read by the cancel written last, or "none"
    clock       \* the number of timestamps written so far (new Date())

vars == <<job, runs, reqs, tileCache, sites, attempted, lastStarted, nreq, cancelSeen, clock>>

----------------------------------------------------------------------------
(* Bounds of the model *)

MaxRuns == 2
MaxReqs == 2

\* Corners of the well-formed boxes a scan is requested for lie in 0..MaxCoord
MaxCoord == 5

\* Side of the oversized box a scan is requested for
LargeSide == 11

(* Program constants *)

\* p_radius_km: 0.05 of storePotentialSite, in metres
DedupRadius == 50

\* Ground size of one tile in metres (the model's grid; a zoom-17 tile is a
\* few hundred metres wide)
TileSize == 200

\* Sub-units per tile of the projected coordinates of a bounding box
Sub == 2

\* MAX_REGION_SIZE_KM2 of geo.ts; one squared unit of a box is one sq km
MAX_REGION_SIZE_KM2 == 100

\* The lower limit 0.01 sq km of validateRegionSize, in hundredths
MinRegionSizeHundredths == 1

----------------------------------------------------------------------------
(* Tile coordinate system.  A bounding box is given by its projected       *)
(* (Web-Mercator) coordinates in units of 1/Sub tile: x grows eastward,    *)
(* y grows southward, so north <= south in projected units for a valid box.*)

Box(west, east, north, south) ==
    [west |-> west, east |-> east, north |-> north, south |-> south]

\* The regions a scan is requested for: tiles 0..1 x 0..1 and tiles 1..3 x 1..1
Regions == { Box(0, 2 * Sub - 1, 0, 2 * Sub - 1), Box(Sub, 4 * Sub - 1, Sub, 2 * Sub - 1) }

\* A tile range that rounds the north-west corner up
bboxToTileRangeCeil(bbox) ==
    [minX |-> (bbox.west + Sub - 1) \div Sub, maxX |-> bbox.east \div Sub,
     minY |-> (bbox.north + Sub - 1) \div Sub, maxY |-> bbox.south \div Sub]

bboxToTileRange(bbox) ==
    [minX |-> bbox.west \div Sub, maxX |-> bbox.east \div Sub,
     minY |-> bbox.north \div Sub, maxY |-> bbox.south \div Sub]

calculateTileCount(bbox) ==
    LET t == bboxToTileRange(bbox)
    IN  (t.maxX - t.minX + 1) * (t.maxY - t.minY + 1)

getTileIndex(x, y, minX, minY, width) == (y - minY) * width + (x - minX)

\* The inner loop of iterateTiles (lines 83-85): the tiles of row y from x on
RECURSIVE iterateRow(_, _, _)
iterateRow(x, maxX, y) ==
    IF x > maxX THEN <<>>
    ELSE << [x |-> x, y |-> y] >> \o iterateRow(x + 1, maxX, y)

\* The outer loop of iterateTiles (lines 82-86): the rows from y on
RECURSIVE iterateRows(_, _)
iterateRows(y, t) ==
    IF y > t.maxY THEN <<>>
    ELSE iterateRow(t.minX, t.maxX, y) \o iterateRows(y + 1, t)

\* A generator with the loops exchanged: x outer, y inner
iterateTilesColumnMajor(bbox) ==
    LET t == bboxToTileRange(bbox)
        w == t.maxX - t.minX + 1
        h == t.maxY - t.minY + 1
        n == IF w > 0 /\ h > 0 THEN w * h ELSE 0
    IN  [k \in 1..n |-> [x |-> t.minX + ((k - 1) \div h), y |-> t.minY + ((k - 1) % h)]]

\* The tiles the generator yields, in the order it yields them
iterateTiles(bbox) ==
    LET t == bboxToTileRange(bbox)
    IN  iterateRows(t.minY, t)

\* Ground footprint of a tile, in metres; latitude grows northward
tileToBbox(tile) ==
    [west |-> tile.x * TileSize, east |-> (tile.x + 1) * TileSize,
     north |-> 0 - tile.y * TileSize, south |-> 0 - (tile.y + 1) * TileSize]

getTileKey(tile) == <<tile.x, tile.y>>

\* The ground position, in the metres of tileToBbox, of a projected coordinate
\* of a box is coordinate * TileSize / Sub eastward and as much southward.
\* Both sides of a comparison are taken Sub times, to stay in the integers:
\* an edge of tileToBbox, and the position of a coordinate
edgeTimesSub(metres) == metres * Sub
groundTimesSub(coordinate) == coordinate * TileSize

----------------------------------------------------------------------------
(* Job store *)

Statuses == {"queued", "scanning", "paused", "complete", "failed"}

NoJob ==
    [exists |-> FALSE, bbox |-> [west |-> 0, east |-> 0, north |-> 0, south |-> 0],
     status |-> "queued", totalTiles |-> 0, scannedTiles |-> 0, sitesFound |-> 0,
     currentTileX |-> 0, currentTileY |-> 0, startedAt |-> 0, pausedAt |-> 0,
     completedAt |-> 0, errorMessage |-> ""]

\* The row createScanJob inserts
createScanJob(bbox) ==
    LET t == bboxToTileRange(bbox)
    IN  [exists |-> TRUE, bbox |-> bbox, status |-> "queued",
         totalTiles |-> calculateTileCount(bbox), scannedTiles |-> 0, sitesFound |-> 0,
         currentTileX |-> t.minX, currentTileY |-> t.minY,
         startedAt |-> 0, pausedAt |-> 0, completedAt |-> 0, errorMessage |-> ""]

\* UPDATE scan_jobs SET status, ...updates WHERE id = jobId: the fields named in
\* updates and the status are written, every other column is left alone; an
\* update that matches no row changes nothing and reports no error
updateScanJobStatus(j, status, updates) ==
    IF ~j.exists THEN j
    ELSE [f \in DOMAIN j |->
            IF f = "status" THEN status
            ELSE IF f \in DOMAIN updates THEN updates[f]
            ELSE j[f]]

\* job?.status === 'paused'
isScanPaused(j) == j.exists /\ j.status = "paused"

\* A guard that lets every existing job through
isRunnableAnyStatus(j) == j.exists

\* runScan's guard: the job exists and is queued or paused
isRunnable(j) == j.exists /\ j.status \in {"queued", "paused"}

----------------------------------------------------------------------------
(* Detection collaborator, geolocation and the deduplication gate.         *)
(* A feature is [confidence, x, y]: the categorical level of the parsed    *)
(* response and the relative position in percent of the image.             *)

\* confidenceToNumber, in hundredths
confidenceToNumber(confidence) ==
    CASE confidence = "high" -> 85
      [] confidence = "medium" -> 60
      [] confidence = "low" -> 35
      [] OTHER -> 50

\* DEFAULT_CONFIG.confidenceThreshold, in hundredths
confidenceThreshold == 50

\* Rows of sites that exist before the scan: imported reference sites, a
\* verified site, and a potential site of an earlier scan
KnownSites ==
    { [lat |-> -50, lng |-> 50, status |-> "known"],
      [lat |-> -250, lng |-> 50, status |-> "verified"],
      [lat |-> -150, lng |-> 50, status |-> "potential"] }

\* A gate that looks at rows of every status
has_nearby_site_of_any_status(rows, p_lat, p_lng, p_radius) ==
    \E s \in rows :
        /\ s.lat >= p_lat - p_radius /\ s.lat <= p_lat + p_radius
        /\ s.lng >= p_lng - p_radius /\ s.lng <= p_lng + p_radius

\* has_nearby_site over the given rows: a box of half-width radius, rows with
\* status known or verified only
has_nearby_site(rows, p_lat, p_lng, p_radius) ==
    \E s \in rows :
        /\ s.lat >= p_lat - p_radius /\ s.lat <= p_lat + p_radius
        /\ s.lng >= p_lng - p_radius /\ s.lng <= p_lng + p_radius
        /\ s.status \in {"known", "verified"}

\* The row storePotentialSite builds for a feature
potentialSiteRow(feature, tile, tileBbox) ==
    [lat |-> tileBbox.north - ((tileBbox.north - tileBbox.south) * feature.y) \div 100,
     lng |-> tileBbox.west + ((tileBbox.east - tileBbox.west) * feature.x) \div 100,
     status |-> "potential",
     confidence |-> confidenceToNumber(feature.confidence),
     tile_x |-> tile.x, tile_y |-> tile.y]

\* storePotentialSite: the rows of sites after the call (inserted is the
\* sequence of rows the scan has inserted so far); nothing is inserted when a
\* known site is near or when the insert fails.  Only the data of the rpc
\* answer is read (line 249): when the rpc fails its data is null, and the
\* insert goes ahead
storePotentialSite(inserted, feature, tile, tileBbox, dedupOk, insertOk) ==
    LET row == potentialSiteRow(feature, tile, tileBbox)
        table == KnownSites \cup { inserted[k] : k \in DOMAIN inserted }
        nearby == dedupOk /\ has_nearby_site(table, row.lat, row.lng, DedupRadius)
    IN  IF nearby THEN inserted
        ELSE IF ~insertOk THEN inserted
        ELSE Append(inserted, row)

\* A feature loop without the threshold test of line 356
RECURSIVE storeFeaturesNoThreshold(_, _, _, _, _)
storeFeaturesNoThreshold(inserted, features, tile, dedupOk, insertOk) ==
    IF features = <<>> THEN [sites |-> inserted, threw |-> FALSE, gateCalls |-> 0]
    ELSE LET f == Head(features)
         IN  IF ~f.located
             THEN [sites |-> inserted, threw |-> TRUE, gateCalls |-> 0]
             ELSE LET rest == storeFeaturesNoThreshold(
                                  storePotentialSite(inserted, f, tile, tileToBbox(tile),
                                                     dedupOk, insertOk),
                                  Tail(features), tile, dedupOk, insertOk)
                  IN  [rest EXCEPT !.gateCalls = @ + 1]

\* The for loop of processTile over analysisResult.features: features below
\* the threshold are skipped, the others go through storePotentialSite.  A
\* feature of the parsed response that has no location makes
\* storePotentialSite throw a TypeError at feature.location.y: the loop ends
\* there, the rows stored before stay.  gateCalls is the number of
\* has_nearby_site calls made
RECURSIVE storeFeatures(_, _, _, _, _)
storeFeatures(inserted, features, tile, dedupOk, insertOk) ==
    IF features = <<>> THEN [sites |-> inserted, threw |-> FALSE, gateCalls |-> 0]
    ELSE LET f == Head(features)
         IN  IF confidenceToNumber(f.confidence) < confidenceThreshold
             THEN storeFeatures(inserted, Tail(features), tile, dedupOk, insertOk)
             ELSE IF ~f.located
             THEN [sites |-> inserted, threw |-> TRUE, gateCalls |-> 0]
             ELSE LET rest == storeFeatures(
                                  storePotentialSite(inserted, f, tile, tileToBbox(tile),
                                                     dedupOk, insertOk),
                                  Tail(features), tile, dedupOk, insertOk)
                  IN  [rest EXCEPT !.gateCalls = @ + 1]

\* What the collaborators and the store do for one tile: the imagery fetch
\* and the detection call succeed or throw, the detection returns a feature
\* list, the tile_cache upsert and the inserts into sites succeed or fail, the
\* has_nearby_site rpc answers or fails
Outcome(fetchOk, analyzeOk, features, upsertOk, insertOk) ==
    [fetchOk |-> fetchOk, analyzeOk |-> analyzeOk, features |-> features,
     upsertOk |-> upsertOk, insertOk |-> insertOk, dedupOk |-> TRUE]

\* The outcome o with the has_nearby_site rpc failing
DedupDown(o) == [o EXCEPT !.dedupOk = FALSE]

Feature(c, x, y) == [confidence |-> c, x |-> x, y |-> y, located |-> TRUE]

\* A feature of the parsed JSON without its location object
Unlocated(c) == [confidence |-> c, x |-> 0, y |-> 0, located |-> FALSE]

\* Feature lists the detection collaborator returns in the model
Detections ==
    { <<>>,
      << Feature("high", 75, 75) >> }

\* Outcomes without any failure
GoodOutcomes == { Outcome(TRUE, TRUE, d, TRUE, TRUE) : d \in Detections }

\* Outcomes with a failure of one step of the pipeline, and the outcome with a
\* response that parses but holds a feature without location
FailedOutcomes ==
    { Outcome(FALSE, TRUE, <<>>, TRUE, TRUE),
      Outcome(TRUE, FALSE, <<>>, TRUE, TRUE),
      Outcome(TRUE, TRUE, << Feature("high", 75, 75) >>, FALSE, TRUE),
      Outcome(TRUE, TRUE, << Feature("high", 75, 75) >>, TRUE, FALSE),
      Outcome(TRUE, TRUE, << Feature("high", 75, 75), Unlocated("high") >>, TRUE, TRUE) }

\* The label processTile logs for the tile
outcomeKind(o) ==
    IF ~o.fetchOk THEN "fetchError"
    ELSE IF ~o.analyzeOk THEN "analysisError"
    ELSE IF ~o.upsertOk THEN "cacheError"
    ELSE IF ~o.insertOk THEN "insertError"
    ELSE "ok"

\* A processTile that drops the rows of the scan when a collaborator fails
processTileRollsBack(cache, inserted, tile, o) ==
    IF ~o.fetchOk \/ ~o.analyzeOk
    THEN [cache |-> cache, sites |-> <<>>, threw |-> FALSE,
          features |-> <<>>, gateCalls |-> 0]
    ELSE LET stored == storeFeatures(inserted, o.features, tile, o.dedupOk, o.insertOk)
         IN  [cache |-> IF o.upsertOk THEN cache \cup {getTileKey(tile)} ELSE cache,
              sites |-> stored.sites, threw |-> stored.threw,
              features |-> o.features, gateCalls |-> stored.gateCalls]

\* processTile after the cache lookup missed: fetch, detect, mark the tile
\* analyzed, store the features.  Gives the new tile cache and sites rows and
\* whether processTile threw; the number returned to runScan is the number of
\* rows added.  features is analysisResult.features, gateCalls the number of
\* has_nearby_site calls of the tile
processTile(cache, inserted, tile, o) ==
    IF ~o.fetchOk \/ ~o.analyzeOk
    THEN [cache |-> cache, sites |-> inserted, threw |-> FALSE,
          features |-> <<>>, gateCalls |-> 0]
    ELSE LET stored == storeFeatures(inserted, o.features, tile, o.dedupOk, o.insertOk)
         IN  [cache |-> IF o.upsertOk THEN cache \cup {getTileKey(tile)} ELSE cache,
              sites |-> stored.sites, threw |-> stored.threw,
              features |-> o.features, gateCalls |-> stored.gateCalls]

----------------------------------------------------------------------------
(* State after construction: no job row, nothing running *)

Init ==
    /\ job = NoJob
    /\ runs = <<>>
    /\ reqs = <<>>
    /\ tileCache = {}
    /\ sites = <<>>
    /\ attempted = {}
    /\ lastStarted = -1
    /\ nreq = 0
    /\ cancelSeen = "none"
    /\ clock = 0

\* A runScan invocation that has made its first call, getScanJob, and waits
\* for the row.  bbox, startedAt and the counters are those of the job it
\* reads (the const job of runScan); i is the index of the for loop; features
\* and gateCalls are those of the processTile call of the current iteration;
\* revisit tells, until processTile returns, that the pipeline of the current
\* tile was started before
NewRun ==
    [pc |-> "getJob", bbox |-> NoJob.bbox, startedAt |-> 0, i |-> 0,
     scannedTiles |-> 0, sitesFound |-> 0, currentX |-> 0, currentY |-> 0,
     outcome |-> "none", features |-> <<>>, gateCalls |-> 0, revisit |-> FALSE]

\* A run that has ended: its locals are gone
Ended(pc) == [NewRun EXCEPT !.pc = pc]

\* Program positions of a run at which its tile loop is still going on
LoopPcs == {"check", "tile", "fetch", "write", "delay"}
ActivePcs == {"getJob", "setScanning", "complete"} \cup LoopPcs

Active(r) == runs[r].pc \in ActivePcs

NoActiveRun == \A r \in DOMAIN runs : ~Active(r)

\* Where the for loop goes with index i: the next iteration, or past the loop
\* to the completion write
loopPc(bbox, i) == IF i < Len(iterateTiles(bbox)) THEN "check" ELSE "complete"

\* The i++ of the for loop
nextIteration(run) ==
    [run EXCEPT !.pc = loopPc(run.bbox, run.i + 1), !.i = run.i + 1]

----------------------------------------------------------------------------
(* POST /api/scanner: create the job, start runScan in the background *)

StartScan(bbox) ==
    /\ ~job.exists
    /\ runs = <<>>
    /\ job' = createScanJob(bbox)
    /\ runs' = Append(runs, NewRun)
    /\ UNCHANGED <<reqs, tileCache, sites, attempted, lastStarted, nreq, cancelSeen, clock>>

----------------------------------------------------------------------------
(* runScan *)

\* lines 387-394: read the job; throw when it is missing or not runnable
RunGetJob(r) ==
    /\ runs[r].pc = "getJob"
    /\ runs' = [runs EXCEPT ![r] =
                  IF isRunnable(job)
                  THEN [@ EXCEPT !.pc = "setScanning", !.bbox = job.bbox,
                                 !.startedAt = job.startedAt,
                                 !.scannedTiles = job.scannedTiles,
                                 !.sitesFound = job.sitesFound,
                                 !.currentX = job.currentTileX,
                                 !.currentY = job.currentTileY]
                  ELSE Ended("threw")]
    /\ UNCHANGED <<job, reqs, tileCache, sites, attempted, lastStarted, nreq, cancelSeen, clock>>

\* a || b of lines 406-407: b when a is 0
orElse(a, b) == IF a # 0 THEN a ELSE b

\* lines 401-411: the index the loop starts at, from the cursor of the job read
startIndex(bbox, currentTileX, currentTileY) ==
    LET t == bboxToTileRange(bbox)
        width == t.maxX - t.minX + 1
    IN  getTileIndex(orElse(currentTileX, t.minX), orElse(currentTileY, t.minY),
                     t.minX, t.minY, width)

\* A runScan that stamps started_at at every scanning write
RunSetScanningRestamps(r, storeOk) ==
    /\ runs[r].pc = "setScanning"
    /\ LET run == runs[r]
           t == bboxToTileRange(run.bbox)
           start == startIndex(run.bbox, run.currentX, run.currentY)
       IN  IF storeOk
           THEN /\ job' = updateScanJobStatus(job, "scanning", [startedAt |-> clock + 1])
                /\ clock' = clock + 1
                /\ runs' = [runs EXCEPT ![r] =
                              [@ EXCEPT !.pc = loopPc(run.bbox, start),
                                        !.i = start,
                                        !.startedAt = 0,
                                        !.currentX = orElse(run.currentX, t.minX),
                                        !.currentY = orElse(run.currentY, t.minY)]]
           ELSE /\ runs' = [runs EXCEPT ![r] = Ended("threw")]
                /\ UNCHANGED <<job, clock>>
    /\ UNCHANGED <<reqs, tileCache, sites, attempted, lastStarted, nreq, cancelSeen>>

\* lines 396-411: write status scanning (started_at only when the job read had
\* none), then set up the locals from the job read at line 387
RunSetScanning(r, storeOk) ==
    /\ runs[r].pc = "setScanning"
    /\ LET run == runs[r]
           t == bboxToTileRange(run.bbox)
           start == startIndex(run.bbox, run.currentX, run.currentY)
       IN  IF storeOk
           THEN /\ job' = updateScanJobStatus(job, "scanning",
                              IF run.startedAt # 0 THEN <<>>
                              ELSE [startedAt |-> clock + 1])
                /\ clock' = IF run.startedAt # 0 THEN clock ELSE clock + 1
                /\ runs' = [runs EXCEPT ![r] =
                              [@ EXCEPT !.pc = loopPc(run.bbox, start),
                                        !.i = start,
                                        !.startedAt = 0,
                                        !.currentX = orElse(run.currentX, t.minX),
                                        !.currentY = orElse(run.currentY, t.minY)]]
           ELSE /\ runs' = [runs EXCEPT ![r] = Ended("threw")]
                /\ UNCHANGED <<job, clock>>
    /\ UNCHANGED <<reqs, tileCache, sites, attempted, lastStarted, nreq, cancelSeen>>

\* lines 413-422: the pause check at the top of an iteration; when the job is
\* not paused the tile of index i becomes the current tile and processTile
\* is called
RunCheck(r) ==
    /\ runs[r].pc = "check"
    /\ IF isScanPaused(job)
       THEN /\ runs' = [runs EXCEPT ![r] = Ended("returned")]
            /\ UNCHANGED <<attempted, lastStarted>>
       ELSE LET tile == iterateTiles(runs[r].bbox)[runs[r].i + 1]
            IN  /\ runs' = [runs EXCEPT ![r] =
                              [@ EXCEPT !.pc = "tile", !.currentX = tile.x,
                                        !.currentY = tile.y, !.outcome = "none",
                                        !.features = <<>>, !.gateCalls = 0,
                                        !.revisit = (runs[r].i \in attempted)]]
                /\ attempted' = attempted \cup {runs[r].i}
                /\ lastStarted' = runs[r].i
    /\ UNCHANGED <<job, reqs, tileCache, sites, nreq, cancelSeen, clock>>

currentTile(run) == [x |-> run.currentX, y |-> run.currentY]

\* processTile lines 303-315: the tile_cache lookup (skipAnalyzedTiles is on);
\* a tile already analyzed returns 0, and lines 426-427 count it
RunTileCache(r) ==
    /\ runs[r].pc = "tile"
    /\ runs' = [runs EXCEPT ![r] =
                  IF getTileKey(currentTile(runs[r])) \in tileCache
                  THEN [@ EXCEPT !.pc = "write", !.outcome = "cached",
                                 !.revisit = FALSE,
                                 !.scannedTiles = @ + 1]
                  ELSE [@ EXCEPT !.pc = "fetch"]]
    /\ UNCHANGED <<job, reqs, tileCache, sites, attempted, lastStarted, nreq, cancelSeen, clock>>

\* A pipeline whose failure ends the run instead of being logged
RunPipelineAborts(r, o) ==
    /\ runs[r].pc = "fetch"
    /\ LET res == processTile(tileCache, sites, currentTile(runs[r]), o)
           found == Len(res.sites) - Len(sites)
       IN  /\ tileCache' = res.cache
           /\ sites' = res.sites
           /\ runs' = [runs EXCEPT ![r] =
                         IF res.threw \/ outcomeKind(o) # "ok"
                         THEN Ended("threw")
                         ELSE [@ EXCEPT !.pc = "write", !.outcome = outcomeKind(o),
                                        !.sitesFound = @ + found,
                                        !.scannedTiles = @ + 1]]
    /\ UNCHANGED <<job, reqs, attempted, lastStarted, nreq, cancelSeen, clock>>

\* processTile lines 317-374 and runScan lines 425-427: the pipeline of the
\* tile with outcome o; found is the number of rows stored.  When processTile
\* throws, lines 426-450 are skipped: the catch of line 451 logs the error and
\* the loop goes on
RunPipeline(r, o) ==
    /\ runs[r].pc = "fetch"
    /\ LET res == processTile(tileCache, sites, currentTile(runs[r]), o)
           found == Len(res.sites) - Len(sites)
       IN  /\ tileCache' = res.cache
           /\ sites' = res.sites
           /\ runs' = [runs EXCEPT ![r] =
                         IF res.threw
                         THEN nextIteration([@ EXCEPT !.outcome = "threw",
                                                      !.features = res.features,
                                                      !.gateCalls = res.gateCalls,
                                                      !.revisit = FALSE])
                         ELSE [@ EXCEPT !.pc = "write", !.outcome = outcomeKind(o),
                                        !.features = res.features,
                                        !.gateCalls = res.gateCalls,
                                        !.revisit = FALSE,
                                        !.sitesFound = @ + found,
                                        !.scannedTiles = @ + 1]]
    /\ UNCHANGED <<job, reqs, attempted, lastStarted, nreq, cancelSeen, clock>>

\* lines 429-435: the progress write; when the store rejects it the error is
\* caught at line 451 and the loop goes on with the next tile
RunWrite(r, storeOk) ==
    /\ runs[r].pc = "write"
    /\ IF storeOk
       THEN /\ job' = updateScanJobStatus(job, "scanning",
                          [scannedTiles |-> runs[r].scannedTiles,
                           sitesFound |-> runs[r].sitesFound,
                           currentTileX |-> runs[r].currentX,
                           currentTileY |-> runs[r].currentY])
            /\ runs' = [runs EXCEPT ![r].pc = "delay"]
       ELSE /\ runs' = [runs EXCEPT ![r] = nextIteration(runs[r])]
            /\ UNCHANGED job
    /\ UNCHANGED <<reqs, tileCache, sites, attempted, lastStarted, nreq, cancelSeen, clock>>

\* lines 447-450 and the i++ of the for loop
RunDelay(r) ==
    /\ runs[r].pc = "delay"
    /\ runs' = [runs EXCEPT ![r] = nextIteration(runs[r])]
    /\ UNCHANGED <<job, reqs, tileCache, sites, attempted, lastStarted, nreq, cancelSeen, clock>>

\* lines 457-462: the completion write
RunComplete(r, storeOk) ==
    /\ runs[r].pc = "complete"
    /\ IF storeOk
       THEN /\ job' = updateScanJobStatus(job, "complete",
                          [scannedTiles |-> runs[r].scannedTiles,
                           sitesFound |-> runs[r].sitesFound,
                           completedAt |-> clock + 1])
            /\ clock' = clock + 1
            /\ runs' = [runs EXCEPT ![r] = Ended("done")]
       ELSE /\ runs' = [runs EXCEPT ![r] = Ended("threw")]
            /\ UNCHANGED <<job, clock>>
    /\ UNCHANGED <<reqs, tileCache, sites, attempted, lastStarted, nreq, cancelSeen>>

----------------------------------------------------------------------------
(* POST /api/scanner/[jobId]: pause, resume, cancel *)

Actions == {"pause", "resume", "cancel"}

\* Whether the switch of the handler accepts the action for the job it read
accepts(action, j) ==
    CASE action = "pause" -> j.status = "scanning"
      [] action = "resume" -> j.status = "paused"
      [] action = "cancel" -> j.status # "complete" /\ j.status # "failed"

\* lines 162-206: the handler reads the job and checks the action against its
\* status.  A rejected request changes nothing; an accepted resume starts
\* runScan in the background and answers; an accepted pause or cancel goes on
\* to its write.  With exclusive, the caller sends a resume only when no run
\* loop is active
Request(action, exclusive) ==
    /\ job.exists
    /\ nreq < MaxReqs
    /\ action = "resume" => Len(runs) < MaxRuns
    /\ (exclusive /\ action = "resume") => NoActiveRun
    /\ nreq' = nreq + 1
    /\ IF ~accepts(action, job)
       THEN UNCHANGED <<reqs, runs>>
       ELSE IF action = "resume"
       THEN runs' = Append(runs, NewRun) /\ UNCHANGED reqs
       ELSE reqs' = Append(reqs, [action |-> action, seen |-> job.status]) /\ UNCHANGED runs
    /\ UNCHANGED <<job, tileCache, sites, attempted, lastStarted, cancelSeen, clock>>

\* pauseScan (scanner.ts 219-223)
pauseScan(j, now) == updateScanJobStatus(j, "paused", [pausedAt |-> now])

\* A cancel that also clears the progress counters
cancelScanResetsProgress(j) ==
    updateScanJobStatus(j, "failed",
        [errorMessage |-> "Cancelled by user", scannedTiles |-> 0, sitesFound |-> 0])

\* the cancel case (+server.ts 207-209)
cancelScan(j) == updateScanJobStatus(j, "failed", [errorMessage |-> "Cancelled by user"])

\* s without its q-th element
Remove(s, q) == [k \in 1..(Len(s) - 1) |-> IF k < q THEN s[k] ELSE s[k + 1]]

\* lines 178 and 207: the write of an accepted pause or cancel
RequestWrite(q, storeOk) ==
    /\ reqs' = Remove(reqs, q)
    /\ IF ~storeOk
       THEN UNCHANGED <<job, clock, cancelSeen>>
       ELSE IF reqs[q].action = "pause"
       THEN job' = pauseScan(job, clock + 1) /\ clock' = clock + 1 /\ UNCHANGED cancelSeen
       ELSE job' = cancelScan(job) /\ cancelSeen' = reqs[q].seen /\ UNCHANGED clock
    /\ UNCHANGED <<runs, tileCache, sites, attempted, lastStarted, nreq>>

----------------------------------------------------------------------------
(* The job row is deleted by something outside the engine *)

DeleteJob ==
    /\ job.exists
    /\ job' = NoJob
    /\ UNCHANGED <<runs, reqs, tileCache, sites, attempted, lastStarted, nreq, cancelSeen, clock>>

----------------------------------------------------------------------------
(* Specifications *)

\* A deterministic detection collaborator: what it finds on a tile
detect(tile) == IF tile.x % 2 = 1 THEN << Feature("high", 75, 75) >> ELSE <<>>

DetectOutcome(run) == Outcome(TRUE, TRUE, detect(currentTile(run)), TRUE, TRUE)

\* The rows of sites a run loop stores when it goes through the tiles without
\* interruption, the collaborators being those of DetectOutcome: the loop of
\* lines 413-455 with processTile, nothing else touching the store
RECURSIVE uninterrupted(_, _, _)
uninterrupted(tiles, cache, inserted) ==
    IF tiles = <<>> THEN inserted
    ELSE LET tile == Head(tiles)
             res == IF getTileKey(tile) \in cache
                    THEN [cache |-> cache, sites |-> inserted, threw |-> FALSE]
                    ELSE processTile(cache, inserted, tile,
                                     Outcome(TRUE, TRUE, detect(tile), TRUE, TRUE))
         IN  uninterrupted(Tail(tiles), res.cache, res.sites)

uninterruptedSites(bbox) == uninterrupted(iterateTiles(bbox), {}, <<>>)

\* The control surface and the engine, requests at any time, the store and the
\* collaborators without faults
Next ==
    \/ \E b \in Regions : StartScan(b)
    \/ \E a \in Actions : Request(a, FALSE)
    \/ \E q \in DOMAIN reqs : RequestWrite(q, TRUE)
    \/ \E r \in DOMAIN runs : RunGetJob(r)
    \/ \E r \in DOMAIN runs : RunSetScanning(r, TRUE)
    \/ \E r \in DOMAIN runs : RunCheck(r)
    \/ \E r \in DOMAIN runs : RunTileCache(r)
    \/ \E r \in DOMAIN runs : RunPipeline(r, DetectOutcome(runs[r]))
    \/ \E r \in DOMAIN runs : RunWrite(r, TRUE)
    \/ \E r \in DOMAIN runs : RunDelay(r)
    \/ \E r \in DOMAIN runs : RunComplete(r, TRUE)

Spec == Init /\ [][Next]_vars

\* The same with a caller that resumes only when no run loop is active
NextSeq ==
    \/ \E b \in Regions : StartScan(b)
    \/ \E a \in Actions : Request(a, TRUE)
    \/ \E q \in DOMAIN reqs : RequestWrite(q, TRUE)
    \/ \E r \in DOMAIN runs : RunGetJob(r)
    \/ \E r \in DOMAIN runs : RunSetScanning(r, TRUE)
    \/ \E r \in DOMAIN runs : RunCheck(r)
    \/ \E r \in DOMAIN runs : RunTileCache(r)
    \/ \E r \in DOMAIN runs, o \in GoodOutcomes : RunPipeline(r, o)
    \/ \E r \in DOMAIN runs : RunWrite(r, TRUE)
    \/ \E r \in DOMAIN runs : RunDelay(r)
    \/ \E r \in DOMAIN runs : RunComplete(r, TRUE)

SpecSeq == Init /\ [][NextSeq]_vars

\* One run loop with failing collaborators, a store that may reject a write
\* and a job row that may vanish
NextFaults ==
    \/ \E b \in Regions : StartScan(b)
    \/ DeleteJob
    \/ \E r \in DOMAIN runs : RunGetJob(r)
    \/ \E r \in DOMAIN runs, ok \in BOOLEAN : RunSetScanning(r, ok)
    \/ \E r \in DOMAIN runs : RunCheck(r)
    \/ \E r \in DOMAIN runs : RunTileCache(r)
    \/ \E r \in DOMAIN runs, o \in GoodOutcomes \cup FailedOutcomes : RunPipeline(r, o)
    \/ \E r \in DOMAIN runs, ok \in BOOLEAN : RunWrite(r, ok)
    \/ \E r \in DOMAIN runs : RunDelay(r)
    \/ \E r \in DOMAIN runs, ok \in BOOLEAN : RunComplete(r, ok)

SpecFaults == Init /\ [][NextFaults]_vars

----------------------------------------------------------------------------
(* Region validation (geo.ts).  The start handler of the scanner route does *)
(* not call it: StartScan takes the box of the request as it is.            *)

Abs(n) == IF n < 0 THEN 0 - n ELSE n

\* calculateArea: |height * width|
calculateArea(bbox) == Abs((bbox.south - bbox.north) * (bbox.east - bbox.west))

\* validateRegionSize(bbox).valid
validateRegionSize(bbox) ==
    LET area == calculateArea(bbox)
    IN  IF area > MAX_REGION_SIZE_KM2 THEN FALSE
        ELSE IF area * 100 < MinRegionSizeHundredths THEN FALSE
        ELSE TRUE

\* A box whose north edge is north of its south edge (north < south in
\* projected units) and whose east edge is east of its west edge
wellFormed(bbox) == bbox.north < bbox.south /\ bbox.west < bbox.east

\* The well-formed boxes with corners in 0..MaxCoord
ValidRegions ==
    { Box(c[1], c[2], c[3], c[4]) :
        c \in { d \in (0..MaxCoord) \X (0..MaxCoord) \X (0..MaxCoord) \X (0..MaxCoord) :
                   d[1] < d[2] /\ d[3] < d[4] } }

\* Boxes a request can carry that are malformed (east < west; north south of
\* south; both), empty (east = west) or larger than MAX_REGION_SIZE_KM2
BadRegions ==
    { Box(2 * Sub, 0, 0, Sub - 1),
      Box(0, Sub, 2 * Sub, 0),
      Box(2 * Sub, 0, 2 * Sub, 0),
      Box(Sub, Sub, 0, Sub),
      Box(0, LargeSide, 0, LargeSide) }

RequestedRegions == Regions \cup ValidRegions \cup BadRegions

\* Start requests with any box, one run loop, no control requests, no faults
NextStart ==
    \/ \E b \in RequestedRegions : StartScan(b)
    \/ \E r \in DOMAIN runs : RunGetJob(r)
    \/ \E r \in DOMAIN runs : RunSetScanning(r, TRUE)
    \/ \E r \in DOMAIN runs : RunCheck(r)
    \/ \E r \in DOMAIN runs : RunTileCache(r)
    \/ \E r \in DOMAIN runs : RunPipeline(r, DetectOutcome(runs[r]))
    \/ \E r \in DOMAIN runs : RunWrite(r, TRUE)
    \/ \E r \in DOMAIN runs : RunDelay(r)
    \/ \E r \in DOMAIN runs : RunComplete(r, TRUE)

SpecStart == Init /\ [][NextStart]_vars

\* One run loop without control requests; the imagery and detection
\* collaborators and the inserts may fail, the job store answers every write.
\* Every collaborator returns and the event loop runs every continuation
\* whose promise has settled, so a step that stays possible is taken
NextTiles ==
    \/ \E b \in Regions : StartScan(b)
    \/ \E r \in DOMAIN runs : RunGetJob(r)
    \/ \E r \in DOMAIN runs : RunSetScanning(r, TRUE)
    \/ \E r \in DOMAIN runs : RunCheck(r)
    \/ \E r \in DOMAIN runs : RunTileCache(r)
    \/ \E r \in DOMAIN runs, o \in GoodOutcomes \cup FailedOutcomes : RunPipeline(r, o)
    \/ \E r \in DOMAIN runs : RunWrite(r, TRUE)
    \/ \E r \in DOMAIN runs : RunDelay(r)
    \/ \E r \in DOMAIN runs : RunComplete(r, TRUE)

SpecTiles == Init /\ [][NextTiles]_vars /\ WF_vars(NextTiles)

\* The server process dies: every runScan invocation and every request in
\* flight is gone, the rows of the store stay
Crash ==
    /\ \E r \in DOMAIN runs : Active(r)
    /\ runs' = [r \in DOMAIN runs |-> IF Active(r) THEN Ended("died") ELSE runs[r]]
    /\ reqs' = <<>>
    /\ UNCHANGED <<job, tileCache, sites, attempted, lastStarted, nreq, cancelSeen, clock>>

\* After a restart runScan(jobId) is called for the job, no loop being active
Rerun ==
    /\ job.exists
    /\ NoActiveRun
    /\ Len(runs) < MaxRuns
    /\ runs' = Append(runs, NewRun)
    /\ UNCHANGED <<job, reqs, tileCache, sites, attempted, lastStarted, nreq, cancelSeen, clock>>

NextRestart ==
    \/ \E b \in Regions : StartScan(b)
    \/ Crash
    \/ Rerun
    \/ \E r \in DOMAIN runs : RunGetJob(r)
    \/ \E r \in DOMAIN runs : RunSetScanning(r, TRUE)
    \/ \E r \in DOMAIN runs : RunCheck(r)
    \/ \E r \in DOMAIN runs : RunTileCache(r)
    \/ \E r \in DOMAIN runs : RunPipeline(r, DetectOutcome(runs[r]))
    \/ \E r \in DOMAIN runs : RunWrite(r, TRUE)
    \/ \E r \in DOMAIN runs : RunDelay(r)
    \/ \E r \in DOMAIN runs : RunComplete(r, TRUE)

SpecRestart == Init /\ [][NextRestart]_vars

\* Feature lists of a detection call for the dedup gate and the threshold: on
\* tile (0,0) the positions are, from the known site, 0 m, 42 m, 50 m, 57 m
\* (inside the box of half-width 50 m), and far; one feature lies on the
\* potential site of the earlier scan, two features of one list lie on the
\* same spot; the levels are the three of the prompt and one the parsed
\* response may hold beside them
GateDetections ==
    { <<>>,
      << Feature("high", 25, 25) >>,
      << Feature("medium", 40, 40) >>,
      << Feature("high", 50, 25) >>,
      << Feature("high", 45, 45) >>,
      << Feature("medium", 75, 75) >>,
      << Feature("high", 25, 75) >>,
      << Feature("low", 75, 75) >>,
      << Feature("very high", 75, 25) >>,
      << Feature("low", 60, 60), Feature("high", 75, 25) >>,
      << Feature("high", 75, 75), Feature("medium", 75, 75) >> }

\* The outcomes of a tile for the gate: every call answers, or the
\* has_nearby_site rpc fails
GateOutcomes ==
    { Outcome(TRUE, TRUE, d, TRUE, TRUE) : d \in GateDetections }
        \cup { DedupDown(Outcome(TRUE, TRUE, << Feature("high", 25, 25) >>, TRUE, TRUE)) }

\* One run loop, the detection returning any of the lists above
NextGate ==
    \/ \E b \in Regions : StartScan(b)
    \/ \E r \in DOMAIN runs : RunGetJob(r)
    \/ \E r \in DOMAIN runs : RunSetScanning(r, TRUE)
    \/ \E r \in DOMAIN runs : RunCheck(r)
    \/ \E r \in DOMAIN runs : RunTileCache(r)
    \/ \E r \in DOMAIN runs, o \in GateOutcomes : RunPipeline(r, o)
    \/ \E r \in DOMAIN runs : RunWrite(r, TRUE)
    \/ \E r \in DOMAIN runs : RunDelay(r)
    \/ \E r \in DOMAIN runs : RunComplete(r, TRUE)

SpecGate == Init /\ [][NextGate]_vars

\* Pause, resume and cancel with a caller that resumes only when no run loop
\* is active, the tile pipelines failing as in NextTiles
NextPauseTiles ==
    \/ \E b \in Regions : StartScan(b)
    \/ \E a \in Actions : Request(a, TRUE)
    \/ \E q \in DOMAIN reqs : RequestWrite(q, TRUE)
    \/ \E r \in DOMAIN runs : RunGetJob(r)
    \/ \E r \in DOMAIN runs : RunSetScanning(r, TRUE)
    \/ \E r \in DOMAIN runs : RunCheck(r)
    \/ \E r \in DOMAIN runs : RunTileCache(r)
    \/ \E r \in DOMAIN runs, o \in GoodOutcomes \cup FailedOutcomes : RunPipeline(r, o)
    \/ \E r \in DOMAIN runs : RunWrite(r, TRUE)
    \/ \E r \in DOMAIN runs : RunDelay(r)
    \/ \E r \in DOMAIN runs : RunComplete(r, TRUE)

SpecPauseTiles == Init /\ [][NextPauseTiles]_vars

\* Pause, resume and cancel at any time, and a job row that may vanish: a
\* runScan started by a resume reads the job after other writes have landed
NextGuard ==
    \/ \E b \in Regions : StartScan(b)
    \/ DeleteJob
    \/ \E a \in Actions : Request(a, FALSE)
    \/ \E q \in DOMAIN reqs : RequestWrite(q, TRUE)
    \/ \E r \in DOMAIN runs : RunGetJob(r)
    \/ \E r \in DOMAIN runs : RunSetScanning(r, TRUE)
    \/ \E r \in DOMAIN runs : RunCheck(r)
    \/ \E r \in DOMAIN runs : RunTileCache(r)
    \/ \E r \in DOMAIN runs : RunPipeline(r, DetectOutcome(runs[r]))
    \/ \E r \in DOMAIN runs : RunWrite(r, TRUE)
    \/ \E r \in DOMAIN runs : RunDelay(r)
    \/ \E r \in DOMAIN runs : RunComplete(r, TRUE)

SpecGuard == Init /\ [][NextGuard]_vars

----------------------------------------------------------------------------
(* Steps of a run, as seen from a pair of states *)

\* Run r passes its pause check and starts the pipeline of the tile of index i
StartsTile(r) == runs[r].pc = "check" /\ runs'[r].pc = "tile"

\* Run r makes its progress write
WritesProgress(r) == runs[r].pc = "write" /\ runs'[r].pc = "delay"

\* Run r, accepted by the guard of runScan, writes status scanning
WritesScanning(r) == runs[r].pc = "setScanning" /\ runs'[r].pc \in LoopPcs \cup {"complete"}

\* The runs whose tile loop is going on
LoopingRuns == { r \in DOMAIN runs : runs[r].pc \in LoopPcs \cup {"complete"} }

NumTiles == Len(iterateTiles(job.bbox))

\* Run r gets the answer of getScanJob and passes or fails the guard
ReadsJob(r) == runs[r].pc = "getJob" /\ runs'[r] # runs[r]

\* Run r finds the job paused at the top of an iteration and returns
ExitsOnPause(r) == runs[r].pc = "check" /\ runs'[r].pc = "returned"

\* The index, in the tile order of the job, of the persisted cursor
CursorIndex ==
    LET t == bboxToTileRange(job.bbox)
    IN  getTileIndex(job.currentTileX, job.currentTileY, t.minX, t.minY,
                     t.maxX - t.minX + 1)

\* Run r goes through the pipeline of its current tile (processTile past the
\* cache lookup)
RunsPipeline(r) == runs[r].pc = "fetch" /\ runs'[r] # runs[r]

\* The row storePotentialSite builds for feature k of the detection of run r
Candidate(r, k) ==
    potentialSiteRow(runs'[r].features[k], currentTile(runs[r]),
                     tileToBbox(currentTile(runs[r])))

\* The positions in sites of the rows a step adds
NewRows == (Len(sites) + 1) .. Len(sites')

\* A step adds a row at the coordinate of row c
Persisted(c) == \E j \in NewRows : sites'[j].lat = c.lat /\ sites'[j].lng = c.lng

\* (lat, lng) lies within the dedup radius, as a ground distance, of a site
\* flagged known or verified
WithinDedupRadius(lat, lng) ==
    \E s \in KnownSites :
        /\ s.status \in {"known", "verified"}
        /\ (s.lat - lat) * (s.lat - lat) + (s.lng - lng) * (s.lng - lng)
               <= DedupRadius * DedupRadius

\* (lat, lng) lies in the box of half-width radius around a site flagged known
\* or verified
InBoxOfConfirmedSite(lat, lng) ==
    \E s \in KnownSites :
        /\ s.status \in {"known", "verified"}
        /\ Abs(s.lat - lat) <= DedupRadius
        /\ Abs(s.lng - lng) <= DedupRadius

\* Feature k of the detection of run r passed the confidence threshold
PassesThreshold(r, k) ==
    confidenceToNumber(runs'[r].features[k].confidence) >= confidenceThreshold

----------------------------------------------------------------------------
(* The claims *)

\* C1: with one run loop at a time, a job paused after k >= 1 tiles and resumed
\* starts at the first tile not yet processed: no run starts the pipeline of a
\* tile whose pipeline was started before, so every tile is processed at most
\* once over all runs of the job.
C1_NoTileTwice ==
    [][\A r \in DOMAIN runs : StartsTile(r) => runs[r].i \notin attempted]_vars

\* C2: once a pause is written, the status stays paused until a resume (or a
\* cancel): the only step that turns paused into scanning is the write of a
\* runScan started by a resume, never the progress write of the loop; and a
\* loop that makes its pause check while the status is paused starts no tile.
C2_PauseStopsLoop ==
    [][/\ (job.status = "paused" /\ job'.status = "scanning")
            => \E r \in DOMAIN runs : WritesScanning(r)
       /\ \A r \in DOMAIN runs : (job.status = "paused" /\ runs[r].pc = "check")
            => ~StartsTile(r)]_vars

\* C3: complete and failed are terminal: no step changes a status that is
\* complete or failed.
C3_TerminalStatus ==
    [][job.status \in {"complete", "failed"} => job'.status = job.status]_vars

\* C4: after the cancel of a scanning job is written, the loop finishes at most
\* the tile in flight: no run passes its status check and starts the pipeline
\* of a further tile.
C4_CancelStopsLoop ==
    [][cancelSeen = "scanning" => \A r \in DOMAIN runs : ~StartsTile(r)]_vars

\* C5: every change of the persisted status is one of the edges of the state
\* machine, and paused -> scanning is made by a resumed runScan only.
AllowedEdges ==
    { <<"queued", "scanning">>, <<"scanning", "paused">>, <<"paused", "scanning">>,
      <<"scanning", "complete">>, <<"scanning", "failed">>, <<"paused", "failed">> }

C5_OnlyAllowedEdges ==
    [][(job.exists /\ job'.exists /\ job'.status # job.status)
          => /\ <<job.status, job'.status>> \in AllowedEdges
             /\ job.status = "paused" /\ job'.status = "scanning"
                   => \E r \in DOMAIN runs : WritesScanning(r)]_vars

\* C6: over all runs of the job the indices of the tiles whose pipeline is
\* started never decrease and never jump over an index, and when the job is
\* complete every tile of the region has been attempted.
C6_RowMajorNoSkip ==
    [][/\ \A r \in DOMAIN runs : StartsTile(r)
             => runs[r].i >= lastStarted /\ runs[r].i <= lastStarted + 1
       /\ job'.status = "complete" => attempted' = 0..(Len(iterateTiles(job'.bbox)) - 1)]_vars

\* C7: when the job is complete, scannedTiles equals totalTiles.
C7_CompleteCountsAllTiles ==
    (job.exists /\ job.status = "complete") => job.scannedTiles = job.totalTiles

\* C8: a failure in the pipeline of a tile (the fetch or the detection call
\* throws, the tile-cache upsert or the insert of a finding is rejected, the
\* storing of a finding throws) does not abort the job: the pipeline step
\* leaves the run in its loop with scannedTiles one higher and the job row
\* untouched, sitesFound grows by the rows stored only (by none when the
\* fetch, the detection or the insert failed), the progress write leaves the
\* status scanning with that scannedTiles, and the loop goes on to the next
\* index.
FailureKinds == {"fetchError", "analysisError", "cacheError", "insertError"}

C8_TileFailureGoesOn ==
    [][\A r \in DOMAIN runs :
          /\ (runs[r].pc = "fetch" /\ runs'[r] # runs[r])
                => /\ runs'[r].pc \in LoopPcs \cup {"complete"}
                   /\ runs'[r].scannedTiles = runs[r].scannedTiles + 1
                   /\ runs'[r].sitesFound = runs[r].sitesFound + Len(sites') - Len(sites)
                   /\ runs'[r].outcome \in {"fetchError", "analysisError", "insertError"}
                         => runs'[r].sitesFound = runs[r].sitesFound
                   /\ job' = job
          /\ (runs[r].outcome \in FailureKinds /\ WritesProgress(r) /\ job.exists)
                => /\ job'.status = "scanning"
                   /\ job'.scannedTiles = runs[r].scannedTiles
                   /\ job'.sitesFound = runs[r].sitesFound
          /\ (runs[r].outcome \in FailureKinds /\ runs[r].pc = "delay" /\ runs'[r] # runs[r])
                => /\ runs'[r].i = runs[r].i + 1
                   /\ runs'[r].pc = loopPc(runs[r].bbox, runs[r].i + 1)]_vars

\* C9: an engine-level fault ends the run call with an error: a run whose
\* status check finds the job row gone throws, and a run whose progress write
\* is rejected by the store throws, instead of going on to later tiles.
C9_EngineFaultPropagates ==
    [][\A r \in DOMAIN runs :
          /\ (runs[r].pc = "check" /\ ~job.exists /\ runs'[r] # runs[r])
                => runs'[r].pc = "threw"
          /\ (runs[r].pc = "write" /\ runs'[r] # runs[r] /\ ~WritesProgress(r))
                => runs'[r].pc = "threw"]_vars

\* C10: at most one run loop is active for the job at any time.
C10_SingleRunLoop == Cardinality(LoopingRuns) <= 1

\* C11: the control surface accepts pause only for a scanning job, resume only
\* for a paused job and cancel only for a scanning or paused job; the handling
\* of a request up to its acceptance or rejection leaves the job row as it is.
C11_AcceptsByStatus ==
    [][nreq' # nreq
          => /\ job' = job
             /\ Len(reqs') > Len(reqs)
                   => LET q == reqs'[Len(reqs')]
                      IN  /\ q.action = "pause" => q.seen = "scanning"
                          /\ q.action = "cancel" => q.seen \in {"scanning", "paused"}
             /\ Len(runs') > Len(runs) => job.status = "paused"]_vars

\* C12: a job row is created only for a box that is well formed and passes
\* validateRegionSize.
C12_InvalidRegionRejected ==
    [][(~job.exists /\ job'.exists)
          => wellFormed(job'.bbox) /\ validateRegionSize(job'.bbox)]_vars

\* C13: the status becomes complete only by the completion write of a run
\* whose tile list is exhausted, only from status scanning, and that write
\* stores the run's final counters and completedAt.
C13_CompleteFromScanning ==
    [][(job.exists /\ job.status # "complete" /\ job'.status = "complete")
          => /\ job.status = "scanning"
             /\ job'.completedAt # 0
             /\ \E r \in DOMAIN runs :
                   /\ runs[r].pc = "complete" /\ runs'[r].pc = "done"
                   /\ runs[r].i = Len(iterateTiles(runs[r].bbox))
                   /\ job'.scannedTiles = runs[r].scannedTiles
                   /\ job'.sitesFound = runs[r].sitesFound]_vars

\* C14: a job that failed by cancellation has its completion timestamp set.
C14_CancelledHasCompletedAt ==
    (job.exists /\ job.status = "failed" /\ job.errorMessage = "Cancelled by user"
        /\ cancelSeen \in {"scanning", "paused"})
        => job.completedAt # 0

\* C15: the write of a cancel accepted for a scanning job sets status failed
\* and errorMessage "Cancelled by user" and changes no other field of the row.
C15_CancelWritesStatusAndMessage ==
    [][\A q \in DOMAIN reqs :
          (reqs[q].action = "cancel" /\ reqs[q].seen = "scanning"
             /\ reqs' = Remove(reqs, q) /\ job.exists)
          => job' = [job EXCEPT !.status = "failed",
                                !.errorMessage = "Cancelled by user"]]_vars

\* C15 witness: a scanning job with tiles scanned and a site found has been
\* cancelled; the counters and the cursor are those of the last progress write
C15_Witness ==
    /\ cancelSeen = "scanning"
    /\ job.exists /\ job.status = "failed" /\ job.errorMessage = "Cancelled by user"
    /\ job.scannedTiles >= 1 /\ job.sitesFound >= 1
    /\ job.currentTileX # 0

\* C16: with one run loop and store writes that succeed, the persisted
\* progress is behind the loop by at most the tile in flight: outside the
\* span between the end of a pipeline and its progress write the persisted
\* scannedTiles and sitesFound are those of the loop and sitesFound counts
\* every row stored, inside it they lack that one tile only, and the
\* persisted cursor is never before the tile preceding the one in flight.
C16_PersistedLagsOneTile ==
    \A r \in LoopingRuns :
        job.exists =>
            LET run == runs[r]
                t == bboxToTileRange(run.bbox)
                cursor == getTileIndex(job.currentTileX, job.currentTileY,
                                       t.minX, t.minY, t.maxX - t.minX + 1)
            IN  /\ run.pc # "write"
                      => /\ job.scannedTiles = run.scannedTiles
                         /\ job.sitesFound = run.sitesFound
                         /\ job.sitesFound = Len(sites)
                /\ run.pc = "write"
                      => /\ job.scannedTiles + 1 = run.scannedTiles
                         /\ job.sitesFound <= run.sitesFound
                         /\ run.sitesFound = Len(sites)
                /\ cursor >= run.i - 1

\* C17: a job left in status scanning with no run loop active can be run
\* again: a runScan called for it, alone, that reads the job passes its guard
\* and goes on to the scanning write and the tile loop.
C17_ScanningJobRunsAgain ==
    [][\A r \in DOMAIN runs :
          (runs[r].pc = "getJob" /\ runs'[r] # runs[r] /\ runs'[r].pc # "died"
             /\ job.exists /\ job.status = "scanning"
             /\ \A q \in DOMAIN runs \ {r} : ~Active(q))
          => runs'[r].pc = "setScanning"]_vars

\* C18: under fair scheduling, with collaborators that always return, a
\* started job that gets no pause and no cancel eventually is complete,
\* whichever of its tiles fail.
C18_EventuallyComplete ==
    job.exists ~> (job.exists /\ job.status = "complete")

\* C18 witness: a job of three tiles is complete although no tile got through
\* its pipeline: nothing is in the tile cache and no site was stored
C18_Witness ==
    /\ job.exists /\ job.status = "complete" /\ job.totalTiles >= 3
    /\ tileCache = {} /\ sites = <<>>

\* C19: with deterministic collaborators, a job that is complete and has no
\* run left, whatever pauses and resumes it went through, has the rows of
\* sites and the sitesFound of the same job run without interruption.
C19_PauseIdempotent ==
    (job.exists /\ job.status = "complete" /\ NoActiveRun)
        => LET expected == uninterruptedSites(job.bbox)
           IN  /\ { sites[k] : k \in DOMAIN sites } = { expected[k] : k \in DOMAIN expected }
               /\ Len(sites) = Len(expected)
               /\ job.sitesFound = Len(expected)

\* C20: for a well-formed box iterateTiles yields exactly
\* totalTiles = (maxX-minX+1)*(maxY-minY+1) tiles, all of the tile range and
\* pairwise distinct, in row-major order (x inner from minX to maxX, y outer
\* from minY to maxY), and getTileIndex of the i-th tile (from 0) is i.
C20_IterateTilesRowMajor ==
    (job.exists /\ wellFormed(job.bbox))
        => LET t == bboxToTileRange(job.bbox)
               width == t.maxX - t.minX + 1
               tiles == iterateTiles(job.bbox)
               n == Len(tiles)
           IN  /\ n = width * (t.maxY - t.minY + 1)
               /\ n = calculateTileCount(job.bbox) /\ n = job.totalTiles
               /\ n >= 1 /\ tiles[1] = [x |-> t.minX, y |-> t.minY]
               /\ \A k \in 1..n :
                     /\ tiles[k].x \in t.minX..t.maxX /\ tiles[k].y \in t.minY..t.maxY
                     /\ getTileIndex(tiles[k].x, tiles[k].y, t.minX, t.minY, width) = k - 1
                     /\ \A j \in 1..n : j # k => tiles[j] # tiles[k]
               /\ \A k \in 1..(n - 1) :
                     \/ tiles[k + 1].y = tiles[k].y /\ tiles[k + 1].x = tiles[k].x + 1
                     \/ /\ tiles[k].x = t.maxX /\ tiles[k + 1].x = t.minX
                        /\ tiles[k + 1].y = tiles[k].y + 1

\* C20 witness: the run loop of a job of 3 x 2 or 2 x 3 tiles has started the
\* last tile the generator yields, the south-east corner of the range
C20_Witness ==
    /\ job.exists /\ wellFormed(job.bbox) /\ job.totalTiles = 6
    /\ \E r \in DOMAIN runs :
          /\ runs[r].pc = "tile" /\ runs[r].i = job.totalTiles - 1
          /\ runs[r].currentX = bboxToTileRange(job.bbox).maxX
          /\ runs[r].currentY = bboxToTileRange(job.bbox).maxY

\* C21: a candidate whose coordinate lies within the dedup radius (50 m) of a
\* site flagged known or verified is never persisted: the pipeline step of its
\* tile adds no row at its coordinate, and sitesFound grows by the rows added
\* only.
C21_NearbySuppressed ==
    [][\A r \in DOMAIN runs :
          RunsPipeline(r) =>
              /\ \A k \in DOMAIN runs'[r].features :
                     (runs'[r].features[k].located
                      /\ WithinDedupRadius(Candidate(r, k).lat, Candidate(r, k).lng))
                         => ~Persisted(Candidate(r, k))
              /\ runs'[r].pc = "write"
                     => runs'[r].sitesFound - runs[r].sitesFound = Len(sites') - Len(sites)]_vars

\* C22: a candidate whose mapped confidence is at least the threshold and whose
\* coordinate is strictly outside the dedup radius of every known or verified
\* site is always persisted and counted, also when it lies inside the
\* axis-aligned box of half-width radius around a site.
C22_FarPersisted ==
    [][\A r \in DOMAIN runs :
          RunsPipeline(r) =>
              \A k \in DOMAIN runs'[r].features :
                  (/\ runs'[r].features[k].located
                   /\ PassesThreshold(r, k)
                   /\ ~WithinDedupRadius(Candidate(r, k).lat, Candidate(r, k).lng))
                      => /\ Persisted(Candidate(r, k))
                         /\ runs'[r].sitesFound > runs[r].sitesFound]_vars

\* C23: in every reachable state the confidence of each persisted site is one
\* of 0.85, 0.60, 0.35, whatever feature list the detection returns.
C23_ConfidenceOfThreeLevels ==
    \A k \in DOMAIN sites : sites[k].confidence \in {85, 60, 35}

\* C30: a feature whose mapped confidence is below the threshold is never
\* persisted, never counted in sitesFound, and no dedup query is made for it:
\* the gate is called once per feature that passed the threshold.
C30_BelowThresholdSkipped ==
    [][\A r \in DOMAIN runs :
          RunsPipeline(r) =>
              /\ \A k \in DOMAIN runs'[r].features :
                     ~PassesThreshold(r, k) => ~Persisted(Candidate(r, k))
              /\ \A j \in NewRows : sites'[j].confidence >= confidenceThreshold
              /\ runs'[r].gateCalls =
                     Cardinality({ k \in DOMAIN runs'[r].features : PassesThreshold(r, k) })
              /\ runs'[r].sitesFound - runs[r].sitesFound <= runs'[r].gateCalls]_vars

\* A tile whose detection gave a feature below the threshold and one above it
\* has been through the pipeline: one gate call, one row
C30_Witness ==
    \E r \in DOMAIN runs :
        /\ runs[r].pc = "write"
        /\ Len(runs[r].features) = 2
        /\ confidenceToNumber(runs[r].features[1].confidence) < confidenceThreshold
        /\ runs[r].gateCalls = 1
        /\ runs[r].sitesFound = 1
        /\ Len(sites) = 1

\* C24: startedAt is set by the first scanning write of a job and never
\* changes afterwards: a run that resumes the paused job keeps it.
C24_StartedAtSetOnce ==
    [][/\ (job.exists /\ job'.exists /\ job.startedAt # 0)
           => job'.startedAt = job.startedAt
       /\ \A r \in DOMAIN runs : WritesScanning(r) => job'.startedAt # 0]_vars

\* A second run has resumed the job after a pause: its loop goes on, and the
\* job still has the startedAt of before the pause
C24_Witness ==
    /\ Len(runs) >= 2
    /\ runs[2].pc \in LoopPcs
    /\ job.exists
    /\ job.startedAt # 0
    /\ job.pausedAt > job.startedAt

\* C25: when a pause makes the run loop exit, no tile is left half-processed:
\* every tile whose pipeline began before the exit has its findings persisted
\* and its progress written, so the persisted cursor is on the last tile
\* started, the persisted counters are those of the loop, and every stored
\* row is counted.
C25_NoTileTornByPause ==
    [][\A r \in DOMAIN runs :
          (ExitsOnPause(r) /\ lastStarted >= 0)
              => /\ job.exists
                 /\ CursorIndex = lastStarted
                 /\ job.scannedTiles = runs[r].scannedTiles
                 /\ job.sitesFound = runs[r].sitesFound
                 /\ job.sitesFound = Len(sites)]_vars

\* C27: rows of sites persisted by a job are never removed or rolled back:
\* every step keeps every row already there, through pauses, a cancel and
\* tiles that fail later.
C27_SitesOnlyGrow ==
    [][/\ Len(sites') >= Len(sites)
       /\ \A k \in DOMAIN sites : sites'[k] = sites[k]]_vars

\* A job that stored a site, had a later tile fail, and was cancelled
C27_Witness ==
    /\ Len(sites) >= 1
    /\ job.exists
    /\ job.status = "failed"
    /\ job.scannedTiles >= 2
    /\ job.sitesFound < job.scannedTiles

\* C26: createScanJob persists a new job with status queued, scannedTiles 0,
\* sitesFound 0, totalTiles equal to the number of tiles iterateTiles yields
\* for the job's box, and the cursor at (minX, minY).
C26_CreatedJobRow ==
    [][(~job.exists /\ job'.exists)
          => /\ job'.status = "queued"
             /\ job'.scannedTiles = 0
             /\ job'.sitesFound = 0
             /\ job'.totalTiles = Len(iterateTiles(job'.bbox))
             /\ job'.currentTileX = bboxToTileRange(job'.bbox).minX
             /\ job'.currentTileY = bboxToTileRange(job'.bbox).minY]_vars

C29_AnalyzedTileNotResent ==
    [][\A r \in DOMAIN runs :
          LET key == getTileKey(currentTile(runs[r]))
          IN  /\ RunsPipeline(r) => key \notin tileCache
              /\ (runs[r].pc = "tile" /\ runs'[r] # runs[r] /\ key \in tileCache)
                     => /\ runs'[r].pc = "write"
                        /\ runs'[r].scannedTiles = runs[r].scannedTiles + 1
                        /\ runs'[r].sitesFound = runs[r].sitesFound
                        /\ sites' = sites
                        /\ tileCache' = tileCache
              /\ (RunsPipeline(r) /\ tileCache' # tileCache)
                     => /\ tileCache' = tileCache \cup {key}
                        /\ runs'[r].outcome \notin {"fetchError", "analysisError"}]_vars

\* C31: in every reachable state of a job advanced by one run loop at a time,
\* 0 <= scannedTiles <= totalTiles, so totalTiles - scannedTiles is never
\* negative, also after a pause and a resume.
C31_ScannedWithinTotal ==
    job.exists => (0 <= job.scannedTiles /\ job.scannedTiles <= job.totalTiles)

\* C32: the persisted progress never moves backwards: over every step
\* scannedTiles, sitesFound and the row-major index of the cursor do not
\* decrease, also when a resume overlaps a run loop that has not exited.
C32_ProgressMonotone ==
    [][(job.exists /\ job'.exists)
          => /\ job'.scannedTiles >= job.scannedTiles
             /\ job'.sitesFound >= job.sitesFound
             /\ getTileIndex(job'.currentTileX, job'.currentTileY,
                             bboxToTileRange(job.bbox).minX, bboxToTileRange(job.bbox).minY,
                             bboxToTileRange(job.bbox).maxX - bboxToTileRange(job.bbox).minX + 1)
                    >= CursorIndex]_vars

\* C33: the persisted sitesFound never over-counts: with one run loop at a
\* time it is at most the number of rows the job has stored, and a tile
\* visited again after a resume adds nothing to the count.
C33_SitesFoundNotOverCounted ==
    [][/\ job'.exists => job'.sitesFound <= Len(sites')
       /\ \A r \in DOMAIN runs :
              (runs[r].revisit /\ runs[r].pc \in {"tile", "fetch"} /\ runs'[r] # runs[r])
                  => runs'[r].sitesFound = runs[r].sitesFound]_vars

\* C34: runScan for a job that does not exist, or whose status is scanning,
\* complete or failed, fails with an error before any write: the job row, the
\* sites and the tile cache are unchanged, no tile is started, and the run
\* that failed does nothing afterwards.
C34_GuardFailsBeforeAnyWrite ==
    [][\A r \in DOMAIN runs :
          /\ (ReadsJob(r)
               /\ (~job.exists \/ job.status \in {"scanning", "complete", "failed"}))
                 => /\ runs'[r].pc = "threw"
                    /\ job' = job
                    /\ sites' = sites
                    /\ tileCache' = tileCache
                    /\ attempted' = attempted
          /\ runs[r].pc = "threw" => runs'[r] = runs[r]]_vars

\* The runScan of a resume read the job after the loop before it had written
\* complete, and failed at the guard; the job is still complete
C34_Witness ==
    /\ Len(runs) >= 2
    /\ runs[2].pc = "threw"
    /\ job.exists
    /\ job.status = "complete"
    /\ job.completedAt # 0

\* C35: the gate's outcome depends only on sites flagged known or verified: a
\* potential site stored earlier never suppresses a candidate, so every
\* candidate that passed the threshold and has no known or verified site in
\* its box is stored and counted, two candidates at one coordinate both.
C35_PotentialSitesDoNotSuppress ==
    [][\A r \in DOMAIN runs :
          RunsPipeline(r) =>
              LET free == { k \in DOMAIN runs'[r].features :
                               /\ runs'[r].features[k].located
                               /\ PassesThreshold(r, k)
                               /\ ~InBoxOfConfirmedSite(Candidate(r, k).lat,
                                                        Candidate(r, k).lng) }
              IN  /\ \A k \in free : Persisted(Candidate(r, k))
                  /\ Len(sites') - Len(sites) >= Cardinality(free)
                  /\ runs'[r].sitesFound - runs[r].sitesFound = Len(sites') - Len(sites)]_vars

\* Two candidates of one tile at the same coordinate are both stored and
\* counted
C35_Witness ==
    \E r \in DOMAIN runs :
        /\ runs[r].pc = "write"
        /\ Len(runs[r].features) = 2
        /\ runs[r].gateCalls = 2
        /\ Len(sites) >= 2
        /\ sites[Len(sites)].lat = sites[Len(sites) - 1].lat
        /\ sites[Len(sites)].lng = sites[Len(sites) - 1].lng
        /\ runs[r].sitesFound = Len(sites)

\* C36: for every box, also one with its north and south or its east and west
\* swapped, the totalTiles createScanJob stores equals the number of tiles
\* iterateTiles yields, and a run that completes has visited exactly
\* totalTiles tiles.
C36_TotalTilesIsTilesYielded ==
    job.exists =>
        /\ job.totalTiles = Len(iterateTiles(job.bbox))
        /\ job.status = "complete" => Cardinality(attempted) = job.totalTiles

====
